---------------------------- MODULE Spec2Model ----------------------------
(***************************************************************************)
(* Kafky event-driven chat: the Event Bus (event-bus.js), the Event Log    *)
(* and Read Model (database.js, setup-db.js), the Projector                *)
(* (persistence-service.js, class PersistenceService), the Room Dispatcher *)
(* (persistence-service.js, class ChatDispatcher) and the Connection       *)
(* Gateway (server.js).                                                    *)
(*                                                                         *)
(* Node runs every handler to completion up to its next await; a database  *)
(* call is issued in one step and completes, with its continuation, in a   *)
(* later step.  Pending database calls are kept in `tasks`; sqlite3 runs    *)
(* the statements of one connection in any order, so any pending call may  *)
(* complete next.  The synchronous part of a handler is an operator from    *)
(* program state to program state; an action applies one such operator.    *)
(*                                                                         *)
(* A fact is published as a DomainEvent (type, payload); the bus delivers   *)
(* it under its type and hands the handlers its payload.                   *)
(***************************************************************************)
EXTENDS Integers, Sequences, FiniteSets, TLC

(***************************************************************************)
(* Bounds of the model.                                                    *)
(***************************************************************************)
MaxRequests == 4   \* client requests (identify, select, message) handled in a run
MaxFaults == 1     \* failed database calls and throwing handlers in a run
MaxCloses == 1     \* connections closed in a run
MaxPending == 2    \* pending database calls up to which client requests are taken

(***************************************************************************)
(* Values.                                                                 *)
(***************************************************************************)
Sockets == {"wsA", "wsB"}
NoSocket == "null"
JsonObject == "{}"
Null == 0
NoText == ""
Users == {1, 2}
Texts == {"hi", "yo"}

\* setup-db.js: the rows of table `chats`
chats ==
  {[id_chat |-> 1, id_user1 |-> 1, id_user2 |-> 2],
   [id_chat |-> 2, id_user1 |-> 1, id_user2 |-> 3]}

EmptyPayload ==
  [socket |-> NoSocket, chatId |-> Null, userId |-> Null, messageText |-> NoText,
   lastMessageId |-> Null, id_message |-> Null, logId |-> Null]

EmptyTask ==
  [op |-> "", fact |-> Null, socket |-> NoSocket, chatId |-> Null, userId |-> Null,
   text |-> NoText, lastMessageId |-> Null, logId |-> Null]

\* new DomainEvent(type, payload, metadata)
DomainEvent(type, payload) == [type |-> type, payload |-> payload]

(***************************************************************************)
(* Program state.                                                          *)
(***************************************************************************)
VARIABLES
  userId,         \* ws.userId of each connection (Null when unidentified)
  chatId,         \* ws.chatId of each connection (Null when no room)
  currentChatId,  \* socket.currentChatId, written by ChatDispatcher.subscribe
  readyState,     \* "open" or "closed"
  clients,        \* Map userId -> array of sockets (server.js)
  chatRooms,      \* Map chatId -> Set of sockets (ChatDispatcher)
  eventLog,       \* table event_log, in insertion order
  messages,       \* table messages, in insertion order
  sent,           \* what each connection was pushed, in order
  tasks,          \* database calls issued and not completed, in issue order
  facts,          \* history: every publish (emit) in call order, with its progress
  rowLogId,       \* history: for each row of `messages`, the logId it was projected from
  requests,       \* number of client requests handled
  faults          \* number of failures injected

vars == <<userId, chatId, currentChatId, readyState, clients, chatRooms, eventLog,
          messages, sent, tasks, facts, rowLogId, requests, faults>>

State ==
  [userId |-> userId, chatId |-> chatId, currentChatId |-> currentChatId,
   readyState |-> readyState, clients |-> clients, chatRooms |-> chatRooms,
   eventLog |-> eventLog, messages |-> messages, sent |-> sent, tasks |-> tasks,
   facts |-> facts, rowLogId |-> rowLogId, exception |-> FALSE, throws |-> FALSE,
   causationId |-> Null]

Apply(st) ==
  /\ userId' = st.userId
  /\ chatId' = st.chatId
  /\ currentChatId' = st.currentChatId
  /\ readyState' = st.readyState
  /\ clients' = st.clients
  /\ chatRooms' = st.chatRooms
  /\ eventLog' = st.eventLog
  /\ messages' = st.messages
  /\ sent' = st.sent
  /\ tasks' = st.tasks
  /\ facts' = st.facts
  /\ rowLogId' = st.rowLogId

(***************************************************************************)
(* Maps and arrays.                                                        *)
(***************************************************************************)
Has(map, k) == k \in DOMAIN map

MapSet(map, k, v) == [x \in (DOMAIN map) \cup {k} |-> IF x = k THEN v ELSE map[x]]

MapDelete(map, k) == [x \in (DOMAIN map) \ {k} |-> map[x]]

EmptyMap == [x \in {} |-> 0]

RemoveAt(seq, i) == SubSeq(seq, 1, i - 1) \o SubSeq(seq, i + 1, Len(seq))


(***************************************************************************)
(* database.js                                                             *)
(***************************************************************************)

\* mutant: the id of the last row is handed out again
autoincrement_reuse(table, key) ==
  IF Len(table) = 0 THEN 1 ELSE table[Len(table)][key]

\* INTEGER PRIMARY KEY AUTOINCREMENT: rows are never deleted, so the next id
\* is one more than the largest id ever used
autoincrement(table, key) ==
  IF Len(table) = 0 THEN 1 ELSE table[Len(table)][key] + 1

\* this.lastID in the callback of db.run
lastID(table, key) == table[Len(table)][key]

NoParticipants == [id_chat |-> Null, id_user1 |-> Null, id_user2 |-> Null]

getChatParticipants(id) ==
  IF \E row \in chats : row.id_chat = id
    THEN CHOOSE row \in chats : row.id_chat = id
    ELSE NoParticipants

\* the SELECT of getChatHistory names no id_chat column
historyRow(row) == [row EXCEPT !.id_chat = Null]

RECURSIVE MapRows(_)
MapRows(rows) ==
  IF rows = <<>> THEN <<>> ELSE <<historyRow(Head(rows))>> \o MapRows(Tail(rows))

\* getChatHistory(chatId): one parameter; a second argument is ignored
getChatHistory(table, id, lastMessageId) ==
  MapRows(SelectSeq(table, LAMBDA row : row.id_chat = id))

insertMessage(table, cid, uid, message) ==
  Append(table, [id_message |-> autoincrement(table, "id_message"),
                 id_chat |-> cid, id_user |-> uid, message |-> message])

\* JSON.stringify(payload): a socket object does not survive serialization
stringify(payload) ==
  [json |-> [payload EXCEPT !.socket = IF @ = NoSocket THEN NoSocket ELSE JsonObject]]

\* JSON.parse(row.payload)
parse(payloadJson) == payloadJson.json

insertEvent(table, eventType, payload) ==
  Append(table, [id_event |-> autoincrement(table, "id_event"),
                 event_type |-> eventType, payload |-> stringify(payload)])

NoEvent == [event_type |-> "", payload |-> EmptyPayload]


\* mutant: the newest entry is returned whatever id is asked for
getEventByLogId_newest(table, logId) ==
  IF Len(table) > 0
    THEN [event_type |-> table[Len(table)].event_type,
          payload |-> parse(table[Len(table)].payload)]
    ELSE [event_type |-> "", payload |-> EmptyPayload]

getEventByLogId(table, logId) ==
  IF \E i \in 1..Len(table) : table[i].id_event = logId
    THEN LET i == CHOOSE j \in 1..Len(table) : table[j].id_event = logId
         IN  [event_type |-> table[i].event_type, payload |-> parse(table[i].payload)]
    ELSE NoEvent

(***************************************************************************)
(* ws: a send on a transport that is not open delivers nothing.            *)
(***************************************************************************)
Push(type, rows) == [type |-> type, rows |-> rows]

wsSend(st, socket, push) ==
  IF st.readyState[socket] = "open"
    THEN [st EXCEPT !.sent[socket] = Append(@, push)]
    ELSE st

issue(st, task) == [st EXCEPT !.tasks = Append(@, task)]

mark(st, f, what) == [st EXCEPT !.facts[f].trace = Append(@, what)]

(***************************************************************************)
(* ChatDispatcher: subscribe, unsubscribe, dispatch.                       *)
(***************************************************************************)

\* mutant: the socket leaves the rooms it was in (as the earlier version of
\* the Dispatcher did for socket.currentChatId)
subscribe_exclusive(st, socket, cid) ==
  LET left == [c \in DOMAIN st.chatRooms |-> st.chatRooms[c] \ {socket}]
  IN  [st EXCEPT !.chatRooms = MapSet(left, cid, (IF Has(left, cid) THEN left[cid] ELSE {})
                                                   \cup {socket}),
                 !.currentChatId[socket] = cid]

\* mutant: the room of the socket is noted, its set is left as it was
subscribe_notAdded(st, socket, cid) ==
  [st EXCEPT !.currentChatId[socket] = cid]

subscribe(st, socket, cid) ==
  LET rooms == IF Has(st.chatRooms, cid) THEN st.chatRooms
               ELSE MapSet(st.chatRooms, cid, {})
  IN  [st EXCEPT !.chatRooms = MapSet(rooms, cid, rooms[cid] \cup {socket}),
                 !.currentChatId[socket] = cid]


unsubscribe(st, socket, cid, cleanRoom) ==
  IF cid # Null /\ Has(st.chatRooms, cid)
    THEN LET room == st.chatRooms[cid] \ {socket}
         IN  IF cleanRoom /\ room = {}
               THEN [st EXCEPT !.chatRooms = MapDelete(@, cid)]
               ELSE [st EXCEPT !.chatRooms = MapSet(@, cid, room)]
    ELSE st

messageRow(payload) ==
  [id_message |-> payload.id_message, id_chat |-> payload.chatId,
   id_user |-> payload.userId, message |-> payload.messageText]


\* mutant: the message is pushed to every open connection
dispatch_everyone(st, cid, payload) ==
  [st EXCEPT !.sent = [s \in Sockets |->
     IF st.readyState[s] = "open"
       THEN Append(@[s], Push("chat.message.broadcast", <<messageRow(payload)>>))
       ELSE @[s]]]

\* mutant: members whose transport is closed are taken out of the room
dispatch_prunes(st, cid, payload) ==
  IF Has(st.chatRooms, cid) /\ st.chatRooms[cid] # {}
    THEN [st EXCEPT !.sent = [s \in Sockets |->
            IF s \in st.chatRooms[cid] /\ st.readyState[s] = "open"
              THEN Append(@[s], Push("chat.message.broadcast", <<messageRow(payload)>>))
              ELSE @[s]],
                    !.chatRooms[cid] = {s \in @ : st.readyState[s] = "open"}]
    ELSE st

dispatch(st, cid, payload) ==
  IF Has(st.chatRooms, cid) /\ st.chatRooms[cid] # {}
    THEN [st EXCEPT !.sent = [s \in Sockets |->
            IF s \in st.chatRooms[cid] /\ st.readyState[s] = "open"
              THEN Append(@[s], Push("chat.message.broadcast", <<messageRow(payload)>>))
              ELSE @[s]]]
    ELSE st

(***************************************************************************)
(* event-bus.js and the listeners registered by listen().                  *)
(***************************************************************************)
RECURSIVE emit(_, _)

\* ChatDispatcher.listen: on 'message-projected'
onMessageProjected(st, f, payload) ==
  LET s0 == mark(st, f, "Dispatcher.message-projected")
  IN  IF s0.throws
        THEN mark([s0 EXCEPT !.exception = TRUE, !.throws = FALSE], f, "threw")
        ELSE emit([dispatch(s0, payload.chatId, payload) EXCEPT !.causationId = f],
                  DomainEvent("message-dispatched", payload))

\* ChatDispatcher.listen: on 'chat-selected-by-user', up to its await
\* history: the fact keeps the number of pushes its connection had got when
\* it was subscribed
onChatSelected(st, f, payload) ==
  issue(subscribe([mark(st, f, "Dispatcher.chat-selected-by-user")
                     EXCEPT !.facts[f].pushed = Len(st.sent[payload.socket])],
                  payload.socket, payload.chatId),
        [EmptyTask EXCEPT !.op = "getChatHistory", !.fact = f,
                          !.socket = payload.socket, !.chatId = payload.chatId,
                          !.userId = payload.userId,
                          !.lastMessageId = payload.lastMessageId])

\* ChatDispatcher.listen: the first 'connection-closed' listener
onConnectionClosed(st, f, payload) ==
  LET s0 == mark(st, f, "Dispatcher.connection-closed")
  IN  IF payload.chatId = Null THEN s0
      ELSE unsubscribe(s0, payload.socket, payload.chatId, TRUE)

\* ChatDispatcher.listen: the cleanup listener of 'connection-closed' and
\* 'chat-revoked-by-new-tab'
onCleanup(st, f, eventType, payload) ==
  LET s0 == mark(st, f, "Dispatcher.cleanup")
      cleanRoom == eventType # "chat-revoked-by-new-tab"
  IN  IF payload.socket # NoSocket /\ payload.chatId # Null
        THEN unsubscribe(s0, payload.socket, payload.chatId, cleanRoom)
        ELSE s0

\* PersistenceService.listen: on 'incoming-message-KAFKED', up to its await
onIncomingMessageKafked(st, f, data) ==
  issue(mark(st, f, "Projector.incoming-message-KAFKED"),
        [EmptyTask EXCEPT !.op = "getEventByLogId", !.fact = f, !.logId = data.logId])

\* the listeners of an event name, in registration order
listenersOf(eventType) ==
  CASE eventType = "message-projected" -> <<"Dispatcher.message-projected">>
    [] eventType = "chat-selected-by-user" -> <<"Dispatcher.chat-selected-by-user">>
    [] eventType = "connection-closed" ->
         <<"Dispatcher.connection-closed", "Dispatcher.cleanup">>
    [] eventType = "chat-revoked-by-new-tab" -> <<"Dispatcher.cleanup">>
    [] eventType = "incoming-message-KAFKED" -> <<"Projector.incoming-message-KAFKED">>
    [] OTHER -> <<>>

\* EventEmitter.prototype.emit: the listeners run in registration order; an
\* exception of a listener leaves emit and the later listeners are not called
originalEmit(st, f, eventType, payload) ==
  CASE eventType = "message-projected" -> onMessageProjected(st, f, payload)
    [] eventType = "chat-selected-by-user" -> onChatSelected(st, f, payload)
    [] eventType = "connection-closed" ->
         LET s1 == onConnectionClosed(st, f, payload)
         IN  IF s1.exception THEN s1 ELSE onCleanup(s1, f, eventType, payload)
    [] eventType = "chat-revoked-by-new-tab" -> onCleanup(st, f, eventType, payload)
    [] eventType = "incoming-message-KAFKED" -> onIncomingMessageKafked(st, f, payload)
    [] OTHER -> st

newEventType(eventType) == eventType \o "-KAFKED"


\* mutant: the log id is not put into the confirmed payload
enrichedPayload_noLogId(eventPayload, eventId) == eventPayload

enrichedPayload(eventPayload, eventId) == [eventPayload EXCEPT !.logId = eventId]


\* mutant: the catch block throws the error on to the caller of emit
emitCatch_rethrow(st, f) ==
  [st EXCEPT !.exception = FALSE,
             !.facts[f].trace = Append(@, "console.error"),
             !.facts[f].outcome = "rejected"]

\* the catch block of the emit proxy: the error is written to the console and
\* the async function returns
emitCatch(st, f) ==
  [st EXCEPT !.exception = FALSE,
             !.facts[f].trace = Append(@, "console.error"),
             !.facts[f].outcome = "resolved"]


\* mutant: the event is logged without the eager emit of STEP 0
emit_noEager(st, event) ==
  issue([st EXCEPT !.facts = Append(@,
           [type |-> event.type, payload |-> event.payload, trace |-> <<>>,
            logId |-> Null, kafked |-> <<>>, outcome |-> "pending",
            reply |-> <<>>, causationId |-> st.causationId,
                pushed |-> Null])],
        [EmptyTask EXCEPT !.op = "logEvent", !.fact = Len(st.facts) + 1])

\* the emit proxy up to `await db.logEvent`
\* history: the fact keeps the id of the fact whose listener published it
\* (metadata.causationId of the DomainEvent), Null for a client's request
emit(st, event) ==
  LET f  == Len(st.facts) + 1
      s0 == [st EXCEPT !.facts = Append(@,
               [type |-> event.type, payload |-> event.payload, trace |-> <<>>,
                logId |-> Null, kafked |-> <<>>, outcome |-> "pending",
                reply |-> <<>>, causationId |-> st.causationId,
                pushed |-> Null])]
      s1 == originalEmit([s0 EXCEPT !.causationId = Null], f, event.type, event.payload)
  IN  IF s1.exception
        THEN emitCatch(s1, f)
        ELSE issue(s1, [EmptyTask EXCEPT !.op = "logEvent", !.fact = f])

\* the emit proxy after `await db.logEvent` resolved
emitLogged(st, f) ==
  LET eventType == st.facts[f].type
      payload   == st.facts[f].payload
      log       == insertEvent(st.eventLog, eventType, payload)
      eventId   == lastID(log, "id_event")
      s0 == [st EXCEPT !.eventLog = log,
                       !.facts[f].logId = eventId,
                       !.facts[f].trace = Append(@, "logged")]
      kafked == [type |-> newEventType(eventType),
                 payload |-> enrichedPayload(payload, eventId)]
      s1 == originalEmit([s0 EXCEPT !.facts[f].kafked = Append(@, kafked)],
                         f, kafked.type, kafked.payload)
  IN  IF s1.exception
        THEN emitCatch(s1, f)
        ELSE [s1 EXCEPT !.facts[f].outcome = "resolved"]


\* mutant: STEP 3 runs although db.logEvent rejected
emitLogFailed_confirms(st, f) ==
  LET kafked == [type |-> newEventType(st.facts[f].type),
                 payload |-> enrichedPayload(st.facts[f].payload, Null)]
      s0 == [st EXCEPT !.facts[f].trace = Append(@, "lost"),
                       !.facts[f].kafked = Append(@, kafked)]
  IN  emitCatch(originalEmit(s0, f, kafked.type, kafked.payload), f)

\* the emit proxy after `await db.logEvent` rejected
emitLogFailed(st, f) ==
  emitCatch([st EXCEPT !.facts[f].trace = Append(@, "lost")], f)


(***************************************************************************)
(* server.js: the handlers of one connection.                              *)
(***************************************************************************)
\* case 'user.identify'
identify(st, ws, uid) ==
  LET map == IF Has(st.clients, uid) THEN st.clients ELSE MapSet(st.clients, uid, <<>>)
  IN  [st EXCEPT !.userId[ws] = uid,
                 !.clients = MapSet(map, uid, Append(map[uid], ws))]

\* userConnections.find(existingSocket => existingSocket !== ws &&
\*                      existingSocket.chatId === requestedChatId)
findOpenChatSocket(st, ws, requestedChatId) ==
  LET userConnections == st.clients[st.userId[ws]]
      hit(i) == userConnections[i] # ws /\ st.chatId[userConnections[i]] = requestedChatId
  IN  IF \E i \in 1..Len(userConnections) : hit(i)
        THEN userConnections[CHOOSE i \in 1..Len(userConnections) :
                               hit(i) /\ \A j \in 1..(i - 1) : ~hit(j)]
        ELSE NoSocket

\* mutant: the old connection keeps its active room
revoke_keepsChatId(st, openChatSocket, requestedChatId) ==
  wsSend(emit(st, DomainEvent("chat-revoked-by-new-tab",
                              [EmptyPayload EXCEPT !.userId = st.userId[openChatSocket],
                                                   !.chatId = st.chatId[openChatSocket],
                                                   !.socket = openChatSocket])),
         openChatSocket, Push("chat.session.revoked", <<>>))

\* the takeover branch of case 'chat.select'
revoke(st, openChatSocket, requestedChatId) ==
  LET chatClosedEvent ==
        DomainEvent("chat-revoked-by-new-tab",
                    [EmptyPayload EXCEPT !.userId = st.userId[openChatSocket],
                                         !.chatId = st.chatId[openChatSocket],
                                         !.socket = openChatSocket])
      s0 == [st EXCEPT !.chatId[openChatSocket] = Null]
  IN  wsSend(emit(s0, chatClosedEvent), openChatSocket,
             Push("chat.session.revoked", <<>>))

\* case 'chat.select' up to `await db.getChatParticipants`
select(st, ws, requestedChatId, lastMessageId) ==
  IF requestedChatId = Null \/ st.userId[ws] = Null THEN st
  ELSE IF ~Has(st.clients, st.userId[ws]) THEN st
  ELSE LET openChatSocket == findOpenChatSocket(st, ws, requestedChatId)
           s0 == IF openChatSocket # NoSocket
                   THEN revoke(st, openChatSocket, requestedChatId)
                   ELSE st
       IN  issue(s0, [EmptyTask EXCEPT !.op = "getChatParticipants", !.socket = ws,
                                       !.chatId = requestedChatId,
                                       !.lastMessageId = lastMessageId,
                                       \* history: the takeover fact of this select
                                       !.fact = IF openChatSocket # NoSocket
                                                  THEN Len(st.facts) + 1 ELSE Null])


\* mutant: nobody is authorized
selectAuthorize_rejects(st, ws, requestedChatId, lastMessageId) == st

\* case 'chat.select' after `await db.getChatParticipants` resolved
selectAuthorize(st, ws, requestedChatId, lastMessageId) ==
  LET participants == getChatParticipants(requestedChatId)
  IN  IF participants = NoParticipants
         \/ (st.userId[ws] # participants.id_user1 /\ st.userId[ws] # participants.id_user2)
        THEN st
        ELSE emit([st EXCEPT !.chatId[ws] = requestedChatId],
                  DomainEvent("chat-selected-by-user",
                              [EmptyPayload EXCEPT !.userId = st.userId[ws],
                                                   !.chatId = requestedChatId,
                                                   !.socket = ws,
                                                   !.lastMessageId = lastMessageId]))


\* mutant: the message is published without the check of userId and chatId
newMessage_unchecked(st, ws, messageText) ==
  emit(st, DomainEvent("incoming-message",
                       [EmptyPayload EXCEPT !.chatId = st.chatId[ws],
                                            !.userId = st.userId[ws],
                                            !.messageText = messageText]))

\* case 'chat.message.new'
newMessage(st, ws, messageText) ==
  IF st.userId[ws] = Null \/ st.chatId[ws] = Null THEN st
  ELSE emit(st, DomainEvent("incoming-message",
                            [EmptyPayload EXCEPT !.chatId = st.chatId[ws],
                                                 !.userId = st.userId[ws],
                                                 !.messageText = messageText]))

\* ws.on('close')
\* mutant: the list of the identity is kept when its last connection closes
close_keepsEntry(st, ws) ==
  IF st.userId[ws] = Null THEN st
  ELSE IF ~Has(st.clients, st.userId[ws]) THEN st
  ELSE LET closingUserId == st.userId[ws]
           remainingConnections ==
             SelectSeq(st.clients[closingUserId], LAMBDA socket : socket # ws)
       IN  emit([st EXCEPT !.clients = MapSet(@, closingUserId, remainingConnections)],
                DomainEvent("connection-closed",
                            [EmptyPayload EXCEPT !.userId = closingUserId,
                                                 !.chatId = st.chatId[ws],
                                                 !.socket = ws]))

\* ws.on('close')
close(st, ws) ==
  IF st.userId[ws] = Null THEN st
  ELSE IF ~Has(st.clients, st.userId[ws]) THEN st
  ELSE LET closingUserId == st.userId[ws]
           closingChatId == st.chatId[ws]
           remainingConnections ==
             SelectSeq(st.clients[closingUserId], LAMBDA socket : socket # ws)
           s0 == IF Len(remainingConnections) > 0
                   THEN [st EXCEPT !.clients = MapSet(@, closingUserId, remainingConnections)]
                   ELSE [st EXCEPT !.clients = MapDelete(@, closingUserId)]
       IN  emit(s0, DomainEvent("connection-closed",
                                [EmptyPayload EXCEPT !.userId = closingUserId,
                                                     !.chatId = closingChatId,
                                                     !.socket = ws]))

(***************************************************************************)
(* ws.on('message'): a frame either parses as JSON or not; a parsed frame  *)
(* has a type and may lack its payload or fields of it (a field that is    *)
(* missing reads as undefined, written Null or NoText here).               *)
(***************************************************************************)
EmptyFrame ==
  [parses |-> TRUE, type |-> "", payload |-> TRUE, userId |-> Null, chatId |-> Null,
   lastMessageId |-> Null, messageText |-> NoText]

\* the try block with its switch; JSON.parse or the read of a field of a
\* missing payload throws into the catch, which writes to the console
onMessage(st, ws, data) ==
  IF ~data.parses THEN st
  ELSE CASE data.type = "user.identify" ->
              IF ~data.payload THEN st ELSE identify(st, ws, data.userId)
         [] data.type = "chat.select" ->
              IF ~data.payload THEN st
              ELSE select(st, ws, data.chatId, data.lastMessageId)
         [] data.type = "chat.message.new" ->
              IF st.userId[ws] = Null \/ st.chatId[ws] = Null THEN st
              ELSE IF ~data.payload THEN st
              ELSE newMessage(st, ws, data.messageText)
         [] OTHER -> st

(***************************************************************************)
(* PersistenceService.listen after its awaits.                             *)
(***************************************************************************)

\* mutant: the fetched entry is not projected
projectFetched_dropped(st, f, logId) == st

\* mutant: the type of the fetched entry is not looked at
projectFetched_anyType(st, f, logId) ==
  LET event == getEventByLogId(st.eventLog, logId)
  IN  IF event = NoEvent
        THEN st
        ELSE issue(st, [EmptyTask EXCEPT !.op = "addMessage", !.fact = f,
                                         !.logId = logId,
                                         !.chatId = event.payload.chatId,
                                         !.userId = event.payload.userId,
                                         !.text = event.payload.messageText])

\* after `await this.db.getEventByLogId(logId)`
projectFetched(st, f, logId) ==
  LET event == getEventByLogId(st.eventLog, logId)
  IN  IF event = NoEvent \/ event.event_type # "incoming-message"
        THEN st
        ELSE issue(st, [EmptyTask EXCEPT !.op = "addMessage", !.fact = f,
                                         !.logId = logId,
                                         !.chatId = event.payload.chatId,
                                         !.userId = event.payload.userId,
                                         !.text = event.payload.messageText])


\* mutant: 'message-projected' is published without waiting for the insert
projectStored_unsaved(st, cid, uid, messageText, logId) ==
  emit(st, DomainEvent("message-projected",
                       [EmptyPayload EXCEPT
                          !.id_message = autoincrement(st.messages, "id_message"),
                          !.chatId = cid, !.userId = uid, !.messageText = messageText]))

\* mutant: a sequence id that already has a row is not projected again
projectStored_once(st, cid, uid, messageText, logId) ==
  IF \E r \in 1..Len(st.rowLogId) : st.rowLogId[r] = logId
    THEN st
    ELSE LET table == insertMessage(st.messages, cid, uid, messageText)
         IN  emit([st EXCEPT !.messages = table, !.rowLogId = Append(@, logId)],
                  DomainEvent("message-projected",
                              [EmptyPayload EXCEPT
                                 !.id_message = table[Len(table)].id_message,
                                 !.chatId = cid, !.userId = uid,
                                 !.messageText = messageText]))

\* after `await this.db.addMessage(chatId, userId, messageText)`
projectStored(st, cid, uid, messageText, logId) ==
  LET table == insertMessage(st.messages, cid, uid, messageText)
      projectedMessage == table[Len(table)]
      s0 == [st EXCEPT !.messages = table, !.rowLogId = Append(@, logId)]
  IN  emit(s0, DomainEvent("message-projected",
                           [EmptyPayload EXCEPT !.id_message = projectedMessage.id_message,
                                                !.chatId = projectedMessage.id_chat,
                                                !.userId = projectedMessage.id_user,
                                                !.messageText = projectedMessage.message]))

(***************************************************************************)
(* ChatDispatcher.listen, 'chat-selected-by-user' after its await.         *)
(***************************************************************************)
\* history: the fact f of the selection keeps the rows the query answered and
\* the number of rows `messages` had then
sendHistory(st, f, socket, cid, uid, lastMessageId) ==
  LET history == getChatHistory(st.messages, cid, lastMessageId)
      s1 == [st EXCEPT !.facts[f].reply =
               <<[rows |-> history, stored |-> Len(st.messages)]>>]
      s0 == IF Len(history) > 0
              THEN wsSend(s1, socket, Push("chat.history", history))
              ELSE s1
  IN  emit([s0 EXCEPT !.causationId = f],
           DomainEvent("user-in-room",
                       [EmptyPayload EXCEPT !.userId = uid, !.chatId = cid]))

(***************************************************************************)
(* The state machine.                                                      *)
(***************************************************************************)
Init ==
  /\ userId = [s \in Sockets |-> Null]
  /\ chatId = [s \in Sockets |-> Null]
  /\ currentChatId = [s \in Sockets |-> Null]
  /\ readyState = [s \in Sockets |-> "open"]
  /\ clients = EmptyMap
  /\ chatRooms = EmptyMap
  /\ eventLog = <<>>
  /\ messages = <<>>
  /\ sent = [s \in Sockets |-> <<>>]
  /\ tasks = <<>>
  /\ facts = <<>>
  /\ rowLogId = <<>>
  /\ requests = 0
  /\ faults = 0

\* a workload w names the connections and inputs of a run, the number of
\* client requests and the numbers of pending database calls up to which
\* requests and closes are taken; a request that changes nothing is not
\* counted
Request(w, st) ==
  /\ requests < w.requests
  /\ Len(tasks) < w.pending
  /\ requests' = IF st = State THEN requests ELSE requests + 1
  /\ Apply(st)
  /\ UNCHANGED faults

\* connections are interchangeable: the first to identify is called wsA
Identify(w) ==
  \E ws \in w.sockets, uid \in w.users :
    /\ readyState[ws] = "open"
    /\ ws = "wsA" \/ userId["wsA"] # Null
    /\ Request(w, identify(State, ws, uid))

Select(w) ==
  \E ws \in w.sockets, cid \in w.chats, last \in w.lastIds :
    /\ readyState[ws] = "open"
    /\ Request(w, select(State, ws, cid, last))

NewMessage(w) ==
  \E ws \in w.sockets, text \in w.texts :
    /\ readyState[ws] = "open"
    /\ Request(w, newMessage(State, ws, text))

Close(w) ==
  \E ws \in w.sockets :
    /\ readyState[ws] = "open"
    /\ Cardinality({s \in Sockets : readyState[s] = "closed"}) < MaxCloses
    /\ Len(tasks) < w.closing
    /\ Apply(close([State EXCEPT !.readyState[ws] = "closed"], ws))
    /\ UNCHANGED <<requests, faults>>

\* frames that do not parse, have an unknown type, no payload, or a payload
\* without the field their type requires
MalformedFrames ==
  {[EmptyFrame EXCEPT !.parses = FALSE], [EmptyFrame EXCEPT !.type = "bogus"]}
    \cup {[EmptyFrame EXCEPT !.type = t, !.payload = present] :
            t \in {"user.identify", "chat.select", "chat.message.new"},
            present \in BOOLEAN}

Malformed(w) ==
  \E ws \in w.sockets, data \in MalformedFrames :
    /\ readyState[ws] = "open"
    /\ Request(w, onMessage(State, ws, data))

\* the state with pending call i taken off the queue
Taken(i) == [State EXCEPT !.tasks = RemoveAt(@, i)]

GetChatParticipantsDone ==
  \E i \in 1..Len(tasks) :
    /\ tasks[i].op = "getChatParticipants"
    /\ Apply(selectAuthorize(Taken(i), tasks[i].socket, tasks[i].chatId,
                             tasks[i].lastMessageId))
    /\ UNCHANGED <<requests, faults>>

LogEventDone ==
  \E i \in 1..Len(tasks) :
    /\ tasks[i].op = "logEvent"
    /\ Apply(emitLogged(Taken(i), tasks[i].fact))
    /\ UNCHANGED <<requests, faults>>

GetEventByLogIdDone ==
  \E i \in 1..Len(tasks) :
    /\ tasks[i].op = "getEventByLogId"
    /\ Apply(projectFetched(Taken(i), tasks[i].fact, tasks[i].logId))
    /\ UNCHANGED <<requests, faults>>

AddMessageDone ==
  \E i \in 1..Len(tasks) :
    /\ tasks[i].op = "addMessage"
    /\ Apply(projectStored(Taken(i), tasks[i].chatId, tasks[i].userId, tasks[i].text,
                           tasks[i].logId))
    /\ UNCHANGED <<requests, faults>>

\* the same, with the 'message-projected' listener throwing (it reads
\* projectedEvent.payload.id_chat of what the Projector published)
AddMessageDoneListenerThrows ==
  \E i \in 1..Len(tasks) :
    /\ tasks[i].op = "addMessage"
    /\ faults < MaxFaults
    /\ faults' = faults + 1
    /\ Apply(projectStored([Taken(i) EXCEPT !.throws = TRUE], tasks[i].chatId,
                           tasks[i].userId, tasks[i].text, tasks[i].logId))
    /\ UNCHANGED requests

GetChatHistoryDone ==
  \E i \in 1..Len(tasks) :
    /\ tasks[i].op = "getChatHistory"
    /\ Apply(sendHistory(Taken(i), tasks[i].fact, tasks[i].socket, tasks[i].chatId,
                         tasks[i].userId,
                         tasks[i].lastMessageId))
    /\ UNCHANGED <<requests, faults>>

\* db.logEvent rejects: the emit proxy catches the error
LogEventFails ==
  \E i \in 1..Len(tasks) :
    /\ tasks[i].op = "logEvent"
    /\ faults < MaxFaults
    /\ faults' = faults + 1
    /\ Apply(emitLogFailed(Taken(i), tasks[i].fact))
    /\ UNCHANGED requests

\* any other database call rejects: the awaiting handler ends there (the catch
\* of ws.on('message') and of the Projector only write to the console);
\* history: the fact whose handler was awaiting is marked
QueryFails ==
  \E i \in 1..Len(tasks) :
    /\ tasks[i].op # "logEvent"
    /\ faults < MaxFaults
    /\ faults' = faults + 1
    /\ Apply(IF tasks[i].op = "getChatParticipants" THEN Taken(i)
             ELSE mark(Taken(i), tasks[i].fact, tasks[i].op \o " rejected"))
    /\ UNCHANGED requests

NextOf(w) ==
  \/ Identify(w)
  \/ Select(w)
  \/ NewMessage(w)
  \/ Close(w)
  \/ GetChatParticipantsDone
  \/ LogEventDone
  \/ GetEventByLogIdDone
  \/ AddMessageDone
  \/ AddMessageDoneListenerThrows
  \/ GetChatHistoryDone
  \/ LogEventFails
  \/ QueryFails

\* one connection of user 1 in chat 1: the publish pipeline
BusWorkload ==
  [sockets |-> {"wsA"}, users |-> {1}, chats |-> {1}, texts |-> Texts,
   lastIds |-> {0}, requests |-> MaxRequests, pending |-> MaxPending,
   closing |-> MaxPending]

\* two connections and both users around chats 1 and 2 (user 2 is no
\* participant of chat 2), each request arriving when the database is idle:
\* the rooms of a connection and the sessions of one user in one room
RoomsWorkload ==
  [sockets |-> Sockets, users |-> Users, chats |-> {1, 2}, texts |-> {"hi"},
   lastIds |-> {0}, requests |-> MaxRequests + 1, pending |-> MaxPending - 1,
   closing |-> MaxPending - 1]

\* two connections of user 1 around chat 1, with requests and closes arriving
\* while database calls are pending: selects racing their authorization
RaceWorkload ==
  [sockets |-> Sockets, users |-> {1}, chats |-> {1}, texts |-> {"hi"},
   lastIds |-> {0}, requests |-> MaxRequests, pending |-> MaxPending,
   closing |-> MaxPending]

\* one connection of user 1 in chat 1 telling which message it saw last
HistoryWorkload ==
  [sockets |-> {"wsA"}, users |-> {1}, chats |-> {1}, texts |-> {"hi"},
   lastIds |-> {0, 1}, requests |-> MaxRequests, pending |-> MaxPending,
   closing |-> MaxPending]

\* identify, select and one message of one connection
PipelineWorkload ==
  [sockets |-> {"wsA"}, users |-> {1}, chats |-> {1}, texts |-> Texts,
   lastIds |-> {0}, requests |-> MaxRequests - 1, pending |-> MaxPending,
   closing |-> MaxPending]

\* one connection of user 1 around chats 1 and 2, its requests arriving while
\* earlier ones wait for the database: the order of one connection's requests
OrderWorkload ==
  [sockets |-> {"wsA"}, users |-> {1}, chats |-> {1, 2}, texts |-> {"hi"},
   lastIds |-> {0}, requests |-> MaxRequests, pending |-> MaxPending,
   closing |-> MaxPending]

\* one connection of user 1 in chat 1 that also sends malformed frames
MalformedWorkload ==
  [sockets |-> {"wsA"}, users |-> {1}, chats |-> {1}, texts |-> {"hi"},
   lastIds |-> {0}, requests |-> MaxRequests, pending |-> MaxPending,
   closing |-> MaxPending]

\* two connections and both users around chat 1, each request arriving when
\* the database is idle and a close also while a call is pending: a
\* connection closing in the middle of the pipeline of its message
CloseWorkload ==
  [sockets |-> Sockets, users |-> Users, chats |-> {1}, texts |-> {"hi"},
   lastIds |-> {0}, requests |-> MaxRequests + 1, pending |-> MaxPending - 1,
   closing |-> MaxPending]

Next == NextOf(BusWorkload)

Spec == Init /\ [][Next]_vars

NextRooms == NextOf(RoomsWorkload)

SpecRooms == Init /\ [][NextRooms]_vars

NextRace == NextOf(RaceWorkload)

SpecRace == Init /\ [][NextRace]_vars

NextHistory == NextOf(HistoryWorkload)

SpecHistory == Init /\ [][NextHistory]_vars

NextPipeline == NextOf(PipelineWorkload)

\* every pending database call is answered: sqlite3 calls its callbacks
DatabaseAnswers ==
  /\ WF_vars(GetChatParticipantsDone)
  /\ WF_vars(LogEventDone \/ LogEventFails)
  /\ WF_vars(GetEventByLogIdDone)
  /\ WF_vars(AddMessageDone \/ AddMessageDoneListenerThrows)
  /\ WF_vars(GetChatHistoryDone)

SpecPipeline == Init /\ [][NextPipeline]_vars /\ DatabaseAnswers

NextOrder == NextOf(OrderWorkload)

SpecOrder == Init /\ [][NextOrder]_vars

NextMalformed == NextOf(MalformedWorkload) \/ Malformed(MalformedWorkload)

SpecMalformed == Init /\ [][NextMalformed]_vars

NextClose == NextOf(CloseWorkload)

SpecClose == Init /\ [][NextClose]_vars

(***************************************************************************)
(* Helpers of the properties.                                              *)
(***************************************************************************)
FactIds == 1..Len(facts)

InTrace(f, what) == \E i \in 1..Len(facts[f].trace) : facts[f].trace[i] = what

Count(seq, what) == Cardinality({i \in 1..Len(seq) : seq[i] = what})

\* the rows of event_log with a given id
LogRows(id) == {i \in 1..Len(eventLog) : eventLog[i].id_event = id}

LogPending(f) == \E i \in 1..Len(tasks) : tasks[i].op = "logEvent" /\ tasks[i].fact = f

Pushed(s, type) == \E i \in 1..Len(sent[s]) : sent[s][i].type = type

(***************************************************************************)
(* C1: when the append of a fact to the Event Log has completed, every     *)
(* listener of the fact's own type was already invoked with it.            *)
(***************************************************************************)
C1_EagerBeforeLogged ==
  \A f \in FactIds :
    LET t == facts[f].trace
        ls == listenersOf(facts[f].type)
    IN  \A i \in 1..Len(t) :
          t[i] = "logged" =>
            \A k \in 1..Len(ls) : \E j \in 1..(i - 1) : t[j] = ls[k]

C1_Witness ==
  \E f \in FactIds :
    /\ facts[f].type = "connection-closed"
    /\ facts[f].trace = <<"Dispatcher.connection-closed", "Dispatcher.cleanup", "logged">>

(***************************************************************************)
(* C2: a fact whose append succeeded has exactly one confirmed variant, of *)
(* type T-KAFKED, carrying the id its append was given; that id is the id  *)
(* of no other fact, and getEventByLogId of it returns type T and the      *)
(* payload as it was serialized (for 'incoming-message': as published).    *)
(***************************************************************************)
C2_OneConfirmedVariant ==
  \A f \in FactIds :
    InTrace(f, "logged") =>
      /\ Len(facts[f].kafked) = 1
      /\ facts[f].kafked[1].type = facts[f].type \o "-KAFKED"
      /\ facts[f].kafked[1].payload.logId = facts[f].logId
      /\ facts[f].kafked[1].payload = [facts[f].payload EXCEPT !.logId = facts[f].logId]
      /\ Cardinality(LogRows(facts[f].logId)) = 1
      /\ \A g \in FactIds : g # f => facts[g].logId # facts[f].logId
      /\ getEventByLogId(eventLog, facts[f].logId) =
           [event_type |-> facts[f].type, payload |-> parse(stringify(facts[f].payload))]
      /\ facts[f].type = "incoming-message" =>
           /\ getEventByLogId(eventLog, facts[f].logId).payload = facts[f].payload
           /\ Count(facts[f].trace, "Projector.incoming-message-KAFKED") = 1

C2_Witness ==
  \E f, g \in FactIds :
    /\ f # g
    /\ facts[f].type = "incoming-message" /\ InTrace(f, "logged")
    /\ facts[g].type = "chat-selected-by-user" /\ InTrace(g, "logged")
    /\ facts[f].logId < facts[g].logId

(***************************************************************************)
(* C3: a fact whose append failed has no confirmed variant, now or later,  *)
(* its listeners were invoked before, and the step in which the append     *)
(* fails changes nothing the listeners did (membership, pushes, tables,    *)
(* connection state).                                                      *)
(***************************************************************************)
C3_LostState ==
  \A f \in FactIds :
    InTrace(f, "lost") =>
      /\ facts[f].kafked = <<>>
      /\ facts[f].logId = Null
      /\ ~InTrace(f, "logged")
      /\ ~LogPending(f)
      /\ \A k \in 1..Len(listenersOf(facts[f].type)) :
           InTrace(f, listenersOf(facts[f].type)[k])
      /\ \A k \in 1..Len(listenersOf(newEventType(facts[f].type))) :
           ~InTrace(f, listenersOf(newEventType(facts[f].type))[k])

C3_LostStep ==
  (\E f \in FactIds : InTrace(f, "lost")' /\ ~InTrace(f, "lost")) =>
    UNCHANGED <<userId, chatId, currentChatId, readyState, clients, chatRooms,
                eventLog, messages, sent>>

C3_NoConfirmationOfLostFact == [](C3_LostState) /\ [][C3_LostStep]_vars

C3_Witness ==
  \E f \in FactIds :
    /\ facts[f].type = "chat-selected-by-user"
    /\ InTrace(f, "lost")
    /\ Has(chatRooms, facts[f].payload.chatId)
    /\ facts[f].payload.socket \in chatRooms[facts[f].payload.chatId]

(***************************************************************************)
(* C4 as claimed: a publish whose append failed ends in an error outcome   *)
(* for its caller.                                                         *)
(***************************************************************************)
C4_FailureReachesPublisher ==
  \A f \in FactIds : InTrace(f, "lost") => facts[f].outcome = "rejected"

(***************************************************************************)
(* C4 as amended: a publish whose append failed is written to the error    *)
(* console by the bus and the publish call completes normally.             *)
(***************************************************************************)
C4_FailureLoggedAndSwallowed ==
  \A f \in FactIds :
    InTrace(f, "lost") =>
      /\ facts[f].outcome = "resolved"
      /\ InTrace(f, "console.error")

C4_Witness ==
  \E f \in FactIds : facts[f].type = "incoming-message" /\ InTrace(f, "lost")

(***************************************************************************)
(* C5: a fact one of whose listeners threw is still appended to the Event  *)
(* Log (its append is pending, done or failed in the database).            *)
(***************************************************************************)
C5_ListenerFailureIsolated ==
  \A f \in FactIds :
    InTrace(f, "threw") => LogPending(f) \/ InTrace(f, "logged") \/ InTrace(f, "lost")

(***************************************************************************)
(* C6: the ids of event_log are 1, 2, 3, ... in append order, and each     *)
(* appended fact was given the id of its own row.                          *)
(***************************************************************************)
C6_SequenceIdsDense ==
  /\ \A i \in 1..Len(eventLog) : eventLog[i].id_event = i
  /\ \A f \in FactIds :
       InTrace(f, "logged") =>
         /\ facts[f].logId \in 1..Len(eventLog)
         /\ eventLog[facts[f].logId].event_type = facts[f].type
  /\ Cardinality({f \in FactIds : InTrace(f, "logged")}) = Len(eventLog)

\* two publishes whose appends completed in the opposite order
C6_Witness ==
  \E f, g \in FactIds :
    /\ f < g
    /\ InTrace(f, "logged") /\ InTrace(g, "logged")
    /\ facts[g].logId < facts[f].logId
    /\ Len(eventLog) >= 3

(***************************************************************************)
(* C7: every row of `messages` has the chat, user and text of the          *)
(* 'incoming-message' entry of event_log whose id a confirmed              *)
(* 'incoming-message-KAFKED' fact carried.                                 *)
(***************************************************************************)
C7_RowsComeFromTheLog ==
  /\ Len(rowLogId) = Len(messages)
  /\ \A r \in 1..Len(messages) :
       /\ \E f \in FactIds :
            /\ facts[f].type = "incoming-message"
            /\ facts[f].kafked # <<>>
            /\ facts[f].kafked[1].payload.logId = rowLogId[r]
       /\ \E i \in LogRows(rowLogId[r]) :
            /\ eventLog[i].event_type = "incoming-message"
            /\ parse(eventLog[i].payload).chatId = messages[r].id_chat
            /\ parse(eventLog[i].payload).userId = messages[r].id_user
            /\ parse(eventLog[i].payload).messageText = messages[r].message

C7_Witness ==
  /\ Len(messages) = 2
  /\ messages[1].message = "yo"
  /\ messages[2].message = "hi"
  /\ rowLogId[1] > rowLogId[2]

(***************************************************************************)
(* C8: every chat.message.broadcast a connection was pushed carries a row  *)
(* that is in `messages` and stems from an 'incoming-message' entry of     *)
(* event_log; every 'message-projected' fact carries a stored row.         *)
(***************************************************************************)
StoredRow(row) ==
  /\ row.id_message \in 1..Len(messages)
  /\ messages[row.id_message] = row
  /\ \E i \in LogRows(rowLogId[row.id_message]) :
       /\ eventLog[i].event_type = "incoming-message"
       /\ parse(eventLog[i].payload).chatId = row.id_chat
       /\ parse(eventLog[i].payload).userId = row.id_user
       /\ parse(eventLog[i].payload).messageText = row.message

C8_BroadcastAfterPersistence ==
  /\ \A s \in Sockets : \A i \in 1..Len(sent[s]) :
       sent[s][i].type = "chat.message.broadcast" => StoredRow(sent[s][i].rows[1])
  /\ \A f \in FactIds :
       facts[f].type = "message-projected" => StoredRow(messageRow(facts[f].payload))

C8_Witness ==
  \E s \in Sockets : Pushed(s, "chat.message.broadcast")

(***************************************************************************)
(* C9: a connection is in the member set of at most one room of the        *)
(* Dispatcher's chatRooms.                                                 *)
(***************************************************************************)
RoomsOf(s) == {c \in DOMAIN chatRooms : s \in chatRooms[c]}

C9_AtMostOneRoom ==
  \A s \in Sockets : Cardinality(RoomsOf(s)) <= 1

(***************************************************************************)
(* C10: room takeover.  In the step in which connection C2 of identity U   *)
(* selects room R while connection C1 of U is active in R, C1 is pushed    *)
(* chat.session.revoked and leaves R's member set, and R keeps its entry;  *)
(* when the participants query of that select has answered, C2 is in R's   *)
(* member set.                                                             *)
(***************************************************************************)
\* the pending participants queries of selects that took a room over
TakeoverTasks(queue) ==
  {i \in 1..Len(queue) : queue[i].op = "getChatParticipants" /\ queue[i].fact # Null}

C10_TakeoverStep ==
  \A C1, C2 \in Sockets : \A R \in {c.id_chat : c \in chats} :
    (/\ C1 # C2
     /\ userId[C1] # Null /\ userId[C1] = userId[C2]
     /\ chatId[C1] = R
     /\ TakeoverTasks(tasks) = {} /\ TakeoverTasks(tasks') # {}
     /\ \A i \in TakeoverTasks(tasks') : tasks'[i].socket = C2 /\ tasks'[i].chatId = R)
    => /\ sent'[C1] = Append(sent[C1], Push("chat.session.revoked", <<>>))
       /\ chatId'[C1] = Null
       /\ Has(chatRooms', R)
       /\ C1 \notin chatRooms'[R]

C10_AnsweredStep ==
  (TakeoverTasks(tasks) # {} /\ TakeoverTasks(tasks') = {} /\ faults' = faults)
    => \A i \in TakeoverTasks(tasks) :
         /\ Has(chatRooms', tasks[i].chatId)
         /\ tasks[i].socket \in chatRooms'[tasks[i].chatId]

C10_RoomTakeover == [][C10_TakeoverStep /\ C10_AnsweredStep]_vars

(***************************************************************************)
(* Steps of a select, told from the pending participants queries.          *)
(***************************************************************************)
Participant(uid, cid) ==
  \E c \in chats : c.id_chat = cid /\ (uid = c.id_user1 \/ uid = c.id_user2)

\* the step is the first half of a select of room R by connection ws
SelectStep(ws, R) ==
  /\ Len(tasks') > Len(tasks)
  /\ tasks'[Len(tasks')].op = "getChatParticipants"
  /\ tasks'[Len(tasks')].socket = ws
  /\ tasks'[Len(tasks')].chatId = R

PendingSelects(queue) == {i \in 1..Len(queue) : queue[i].op = "getChatParticipants"}

\* the step answers pending participants query i: the query leaves the
\* pending calls, and what the step issues comes after the others
AnswerStep(i) ==
  /\ i \in PendingSelects(tasks)
  /\ Cardinality(PendingSelects(tasks')) = Cardinality(PendingSelects(tasks)) - 1
  /\ Len(tasks') >= Len(tasks) - 1
  /\ SubSeq(tasks', 1, Len(tasks) - 1) = RemoveAt(tasks, i)

(***************************************************************************)
(* C11: a select of room R by a connection whose identity is no            *)
(* participant of R changes no member set and no connection's chatId and   *)
(* publishes no fact, neither when it is received nor when its             *)
(* participants query is answered.                                         *)
(***************************************************************************)
C11_Received ==
  \A ws \in Sockets : \A R \in 1..3 :
    (SelectStep(ws, R) /\ ~Participant(userId[ws], R))
      => UNCHANGED <<chatRooms, chatId, facts>>

C11_Answered ==
  \A i \in 1..Len(tasks) :
    (AnswerStep(i) /\ ~Participant(userId[tasks[i].socket], tasks[i].chatId))
      => UNCHANGED <<chatRooms, chatId, facts>>

C11_UnauthorizedSelectChangesNothing == [][C11_Received /\ C11_Answered]_vars

(***************************************************************************)
(* C12: of the open connections of one identity at most one is active in   *)
(* a given room, that is, has that chatId or is in that member set.        *)
(***************************************************************************)
ActiveIn(s, R) ==
  /\ readyState[s] = "open"
  /\ userId[s] # Null
  /\ chatId[s] = R \/ (Has(chatRooms, R) /\ s \in chatRooms[R])

C12_SingleSessionPerRoom ==
  \A s, t \in Sockets : \A R \in 1..3 :
    (s # t /\ userId[s] = userId[t] /\ ActiveIn(s, R)) => ~ActiveIn(t, R)

(***************************************************************************)
(* C13: chat.message.new on a connection without identity or without       *)
(* active room publishes nothing and changes nothing; every step that      *)
(* publishes an 'incoming-message' fact publishes it with the chatId and   *)
(* userId of an open connection that has both, and does nothing else than  *)
(* publish.                                                                *)
(***************************************************************************)
C13_Ignored ==
  \A ws \in Sockets : \A text \in Texts :
    (userId[ws] = Null \/ chatId[ws] = Null) => newMessage(State, ws, text) = State

C13_Accepted ==
  (Len(facts') > Len(facts) /\ facts'[Len(facts) + 1].type = "incoming-message")
    => /\ \E ws \in Sockets :
            /\ userId[ws] # Null /\ chatId[ws] # Null
            /\ facts'[Len(facts) + 1].payload.chatId = chatId[ws]
            /\ facts'[Len(facts) + 1].payload.userId = userId[ws]
       /\ facts'[Len(facts) + 1].payload.chatId # Null
       /\ facts'[Len(facts) + 1].payload.userId # Null
       /\ UNCHANGED <<userId, chatId, currentChatId, clients, chatRooms, eventLog,
                      messages, sent>>

C13_MessagesOfActiveConnectionsOnly == [](C13_Ignored) /\ [][C13_Accepted]_vars

\* a message was accepted from one connection while another one has no room
C13_Witness ==
  /\ \E f \in FactIds : facts[f].type = "incoming-message" /\ facts[f].payload.chatId = 2
  /\ \E ws \in Sockets : userId[ws] # Null /\ chatId[ws] = Null

(***************************************************************************)
(* C14: a closed connection none of whose requests is still awaiting the   *)
(* database is in no room's member set.                                    *)
(***************************************************************************)
InFlight(s) == \E i \in 1..Len(tasks) : tasks[i].socket = s

C14_ClosedConnectionInNoRoom ==
  \A s \in Sockets :
    (readyState[s] = "closed" /\ ~InFlight(s)) => RoomsOf(s) = {}

(***************************************************************************)
(* C15: dispatch(cid, message) appends the broadcast to the pushes of the  *)
(* open members of room cid and leaves everything else as it is, in every  *)
(* reachable state; and every step that pushes a broadcast of a row pushes *)
(* it to exactly the open members of the row's room.                       *)
(***************************************************************************)
Members(R) == IF Has(chatRooms, R) THEN chatRooms[R] ELSE {}

ProbeMessage ==
  [EmptyPayload EXCEPT !.id_message = 1, !.chatId = 1, !.userId = 1, !.messageText = "hi"]

C15_Dispatch ==
  \A R \in 1..3 :
    LET after == dispatch(State, R, [ProbeMessage EXCEPT !.chatId = R])
        push  == Push("chat.message.broadcast",
                      <<messageRow([ProbeMessage EXCEPT !.chatId = R])>>)
    IN  /\ \A s \in Sockets :
             after.sent[s] = IF s \in Members(R) /\ readyState[s] = "open"
                               THEN Append(sent[s], push)
                               ELSE sent[s]
        /\ [after EXCEPT !.sent = sent] = State

C15_BroadcastStep ==
  \A s \in Sockets :
    (/\ Len(sent'[s]) = Len(sent[s]) + 1
     /\ sent'[s][Len(sent'[s])].type = "chat.message.broadcast")
    => LET push == sent'[s][Len(sent'[s])]
           R    == push.rows[1].id_chat
       IN  /\ s \in Members(R) /\ readyState[s] = "open"
           /\ \A t \in Sockets :
                sent'[t] = IF t \in Members(R) /\ readyState[t] = "open"
                             THEN Append(sent[t], push)
                             ELSE sent[t]

C15_DispatchToOpenMembersOnly == [](C15_Dispatch) /\ [][C15_BroadcastStep]_vars

\* a broadcast was pushed, and a room has a member whose transport is closed
C15_Witness ==
  /\ \E s \in Sockets : Pushed(s, "chat.message.broadcast")
  /\ \E t \in Sockets : \E R \in 1..3 : readyState[t] = "closed" /\ t \in Members(R)

(***************************************************************************)
(* Answers of the history query: Answered is the set of selections whose   *)
(* query was answered, NewerThan(R, N, k) the ids of the rows of room R    *)
(* among the first k rows of `messages` whose id is greater than N.        *)
(***************************************************************************)
Answered == {f \in FactIds : facts[f].type = "chat-selected-by-user" /\ facts[f].reply # <<>>}

RowIds(rows) == {rows[i].id_message : i \in 1..Len(rows)}

NewerThan(R, N, k) ==
  {messages[r].id_message : r \in {r \in 1..k : messages[r].id_chat = R
                                                 /\ messages[r].id_message > N}}

(***************************************************************************)
(* C16: the rows answered to select(R, lastMessageId = N), which are the   *)
(* rows of the chat.history push, are rows of room R with an id greater    *)
(* than N.                                                                 *)
(***************************************************************************)
C16_HistoryAfterLastSeen ==
  \A f \in Answered :
    \A id \in RowIds(facts[f].reply[1].rows) :
      /\ id \in 1..Len(messages)
      /\ messages[id].id_chat = facts[f].payload.chatId
      /\ id > facts[f].payload.lastMessageId

(***************************************************************************)
(* C17: two selects of the same room with the same lastMessageId N by one  *)
(* connection, answered with no row stored in between, are answered the    *)
(* same rows, each row once, and these are the rows of the room newer      *)
(* than N.                                                                 *)
(***************************************************************************)
C17_IdempotentHistory ==
  \A f, g \in Answered :
    (/\ f < g
     /\ facts[f].payload.socket = facts[g].payload.socket
     /\ facts[f].payload.chatId = facts[g].payload.chatId
     /\ facts[f].payload.lastMessageId = facts[g].payload.lastMessageId
     /\ facts[f].reply[1].stored = facts[g].reply[1].stored)
    => /\ facts[f].reply[1].rows = facts[g].reply[1].rows
       /\ Cardinality(RowIds(facts[g].reply[1].rows)) = Len(facts[g].reply[1].rows)
       /\ RowIds(facts[g].reply[1].rows) =
            NewerThan(facts[g].payload.chatId, facts[g].payload.lastMessageId,
                      facts[g].reply[1].stored)

(***************************************************************************)
(* Rows of an accepted message: the rows of `messages` written from the    *)
(* log entry of 'incoming-message' fact f.                                 *)
(***************************************************************************)
Accepted == {f \in FactIds : facts[f].type = "incoming-message"}

RowsOfFact(f) ==
  {r \in 1..Len(messages) : facts[f].logId # Null /\ rowLogId[r] = facts[f].logId}

OneRow(f) ==
  /\ Cardinality(RowsOfFact(f)) = 1
  /\ \A r \in RowsOfFact(f) :
       /\ messages[r].id_chat = facts[f].payload.chatId
       /\ messages[r].id_user = facts[f].payload.userId
       /\ messages[r].message = facts[f].payload.messageText

AtMostOneRow ==
  /\ \A f \in Accepted : Cardinality(RowsOfFact(f)) <= 1
  /\ \A r \in 1..Len(messages) : \E f \in Accepted : r \in RowsOfFact(f)

C19_RowStored ==
  Len(messages') = Len(messages) + 1
    => LET row == messages'[Len(messages')]
       IN  \A s \in Sockets :
             sent'[s] = IF s \in Members(row.id_chat) /\ readyState[s] = "open"
                          THEN Append(sent[s], Push("chat.message.broadcast", <<row>>))
                          ELSE sent[s]

C19_StoredRowsAreBroadcast == [][C19_RowStored]_vars

(***************************************************************************)
(* C20 as claimed: a select of room 2 by a connection of user 1 without    *)
(* active room is rejected (the answer of its participants query leaves    *)
(* the connection without room, its rooms and the facts as they are), and  *)
(* no row of `messages` is a message of user 1 in room 2.                  *)
(***************************************************************************)
C20_Rejected ==
  \A i \in 1..Len(tasks) :
    (/\ AnswerStep(i)
     /\ tasks[i].chatId = 2
     /\ userId[tasks[i].socket] = 1
     /\ chatId[tasks[i].socket] = Null)
    => /\ chatId'[tasks[i].socket] = Null
       /\ UNCHANGED <<chatRooms, facts>>

C20_NoRowOfUser1InRoom2 ==
  \A r \in 1..Len(messages) : ~(messages[r].id_chat = 2 /\ messages[r].id_user = 1)

C20_User1RejectedFromRoom2 == [](C20_NoRowOfUser1InRoom2) /\ [][C20_Rejected]_vars

(***************************************************************************)
(* C20 as amended: user 1 is a participant of room 2, so the select is     *)
(* accepted: when its participants query is answered the connection is     *)
(* active in room 2 and a member of it and 'chat-selected-by-user' is      *)
(* published; a message of a connection of user 1 active in room 2 is      *)
(* published for room 2 with author 1, and the row written from it is a    *)
(* row of room 2 and user 1.                                               *)
(***************************************************************************)
C20_Accepted ==
  \A i \in 1..Len(tasks) :
    (/\ AnswerStep(i)
     /\ faults' = faults
     /\ tasks[i].chatId = 2
     /\ userId[tasks[i].socket] = 1
     /\ chatId[tasks[i].socket] = Null)
    => /\ chatId'[tasks[i].socket] = 2
       /\ tasks[i].socket \in chatRooms'[2]
       /\ Len(facts') = Len(facts) + 1
       /\ facts'[Len(facts')].type = "chat-selected-by-user"
       /\ facts'[Len(facts')].payload.socket = tasks[i].socket

C20_MessagePublished ==
  \A ws \in Sockets :
    (userId[ws] = 1 /\ chatId[ws] = 2)
      => LET after == newMessage(State, ws, "hi")
         IN  /\ Len(after.facts) = Len(facts) + 1
             /\ after.facts[Len(after.facts)].type = "incoming-message"
             /\ after.facts[Len(after.facts)].payload.chatId = 2
             /\ after.facts[Len(after.facts)].payload.userId = 1

C20_RowsOfAcceptedMessages ==
  \A f \in Accepted : \A r \in RowsOfFact(f) :
    /\ messages[r].id_chat = facts[f].payload.chatId
    /\ messages[r].id_user = facts[f].payload.userId

C20_User1AcceptedInRoom2 ==
  /\ [](C20_MessagePublished /\ C20_RowsOfAcceptedMessages)
  /\ [][C20_Accepted]_vars

\* user 1 selected room 2, sent a message, and the message is a row of room 2
C20_Witness ==
  \E r \in 1..Len(messages) : \E ws \in Sockets :
    /\ messages[r].id_chat = 2 /\ messages[r].id_user = 1
    /\ userId[ws] = 1 /\ chatId[ws] = 2 /\ ws \in Members(2)

(***************************************************************************)
(* C24: subscribe(connection, B) adds the connection to room B and leaves  *)
(* every other member set as it is, in every reachable state; and the step *)
(* that authorizes a select of room B adds B to the rooms of the           *)
(* connection and takes none away.                                         *)
(***************************************************************************)
C24_Subscribe ==
  \A s \in Sockets : \A B \in 1..3 :
    LET after == subscribe(State, s, B)
    IN  /\ s \in after.chatRooms[B]
        /\ \A A \in DOMAIN chatRooms :
             after.chatRooms[A] = IF A = B THEN chatRooms[A] \cup {s} ELSE chatRooms[A]
        /\ DOMAIN after.chatRooms = DOMAIN chatRooms \cup {B}

C24_SelectStep ==
  \A i \in 1..Len(tasks) :
    (AnswerStep(i) /\ chatId'[tasks[i].socket] = tasks[i].chatId /\ Len(facts') > Len(facts))
      => \A A \in DOMAIN chatRooms :
           tasks[i].socket \in chatRooms[A] =>
             (Has(chatRooms', A) /\ tasks[i].socket \in chatRooms'[A])

C25_IdentityKept == \A s \in Sockets : userId[s] # Null => userId'[s] = userId[s]

C25_ListedUnderOwnIdentity ==
  \A u \in DOMAIN clients : \A i \in 1..Len(clients[u]) :
    readyState[clients[u][i]] = "open" => userId[clients[u][i]] = u

C25_IdentifyOnce == [](C25_ListedUnderOwnIdentity) /\ [][C25_IdentityKept]_vars

(***************************************************************************)
(* C26: the step that closes an identified connection takes it out of the  *)
(* list of its identity, deletes the entry when the list became empty and  *)
(* publishes exactly one "connection-closed" fact with the connection, its *)
(* active room and its identity; the step that closes a connection that    *)
(* never identified publishes nothing and leaves the index alone.  The     *)
(* index never holds an empty list.                                        *)
(***************************************************************************)
ListedUnder(index, u, s) == Has(index, u) /\ \E i \in 1..Len(index[u]) : index[u][i] = s

C26_CloseStep ==
  \A s \in Sockets :
    (readyState[s] = "open" /\ readyState'[s] = "closed") =>
      IF userId[s] = Null
        THEN UNCHANGED <<facts, clients, eventLog, tasks>>
        ELSE /\ ~ListedUnder(clients', userId[s], s)
             /\ Has(clients', userId[s]) <=>
                  \E i \in 1..Len(clients[userId[s]]) : clients[userId[s]][i] # s
             /\ \A u \in DOMAIN clients : u # userId[s] =>
                  (Has(clients', u) /\ clients'[u] = clients[u])
             /\ Len(facts') = Len(facts) + 1
             /\ SubSeq(facts', 1, Len(facts)) = facts
             /\ facts'[Len(facts')].type = "connection-closed"
             /\ facts'[Len(facts')].payload =
                  [EmptyPayload EXCEPT !.socket = s, !.chatId = chatId[s],
                                       !.userId = userId[s]]

C26_NoEmptyList == \A u \in DOMAIN clients : clients[u] # <<>>

C26_CloseCleansIdentityIndex == [](C26_NoEmptyList) /\ [][C26_CloseStep]_vars

\* the last connection of identity 1 closed while in a room, another identity
\* stays listed, and a connection that never identified has closed somewhere
C26_Witness ==
  /\ \E f \in FactIds : /\ facts[f].type = "connection-closed"
                         /\ facts[f].payload.userId = 1
                         /\ facts[f].payload.chatId # Null
  /\ ~Has(clients, 1)
  /\ Has(clients, 2)

\* a connection closed before it identified
C26_WitnessUnidentified ==
  \E s \in Sockets : readyState[s] = "closed" /\ userId[s] = Null /\ facts = <<>>

(***************************************************************************)
(* C27: a room of the membership map has no member only while the select   *)
(* whose takeover emptied it is waiting for its authorization; when no     *)
(* database call has failed, every other room entry has a member.          *)
(***************************************************************************)
C27_EmptiedByPendingTakeover(R) ==
  \E i \in TakeoverTasks(tasks) : tasks[i].chatId = R

C27_NoEmptyRoom ==
  faults = 0 =>
    \A R \in DOMAIN chatRooms :
      chatRooms[R] = {} => C27_EmptiedByPendingTakeover(R)

(***************************************************************************)
(* C28: in every reachable state and for every sequence id that has no log *)
(* entry or whose entry is not an "incoming-message", the Projector's step *)
(* after fetching the entry changes nothing: no row is written, no insert  *)
(* is issued and nothing is published; a confirmed "incoming-message" that *)
(* is handled afterwards is projected as if the other had not been there.  *)
(***************************************************************************)
C28_Invalid(logId) ==
  \/ getEventByLogId(eventLog, logId) = NoEvent
  \/ getEventByLogId(eventLog, logId).event_type # "incoming-message"

C28_InvalidEntryIsSkipped ==
  \A f \in FactIds : \A logId \in 0..(Len(eventLog) + 1) :
    C28_Invalid(logId) =>
      /\ projectFetched(State, f, logId) = State
      /\ \A later \in 1..Len(eventLog) :
           ~C28_Invalid(later) =>
             LET queue == projectFetched(projectFetched(State, f, logId), f, later).tasks
             IN  /\ Len(queue) = Len(tasks) + 1
                 /\ queue[Len(queue)].op = "addMessage"
                 /\ queue[Len(queue)].logId = later

\* the log holds an entry of another type and an "incoming-message" whose row
\* has been written
C28_Witness ==
  /\ \E logId \in 1..Len(eventLog) : eventLog[logId].event_type = "chat-selected-by-user"
  /\ \E f \in Accepted : OneRow(f)

(***************************************************************************)
(* C29: every published fact has at most one log entry and at most one     *)
(* confirmed variant, and exactly one log entry once its publish has ended *)
(* unless the append was rejected; no confirmed variant is published or    *)
(* logged as a fact of its own; every "message-projected" is caused by one *)
(* "incoming-message" and every "message-dispatched" by one                *)
(* "message-projected"; and the pending work runs out again and again.     *)
(***************************************************************************)
PublishedTypes ==
  {"incoming-message", "message-projected", "message-dispatched",
   "chat-selected-by-user", "user-in-room", "chat-revoked-by-new-tab",
   "connection-closed"}

LogEntriesOf(f) ==
  {i \in 1..Len(eventLog) : facts[f].logId # Null /\ eventLog[i].id_event = facts[f].logId}

FactsOfType(type) == {f \in FactIds : facts[f].type = type}

C29_OneEntryOneVariant ==
  \A f \in FactIds :
    /\ Cardinality(LogEntriesOf(f)) <= 1
    /\ Len(facts[f].kafked) <= 1
    /\ (facts[f].outcome = "resolved" /\ ~InTrace(f, "lost"))
         => Cardinality(LogEntriesOf(f)) = 1

C29_VariantNotPublished ==
  /\ \A f \in FactIds :
       /\ facts[f].type \in PublishedTypes
       /\ \A k \in 1..Len(facts[f].kafked) :
            facts[f].kafked[k].type = facts[f].type \o "-KAFKED"
  /\ \A i \in 1..Len(eventLog) : eventLog[i].event_type \in PublishedTypes
  /\ Len(eventLog) <= Len(facts)

C29_Chain ==
  /\ Cardinality(FactsOfType("message-projected")) <= Cardinality(FactsOfType("incoming-message"))
  /\ Cardinality(FactsOfType("message-dispatched")) <= Cardinality(FactsOfType("message-projected"))
  /\ Cardinality(FactsOfType("message-projected")) = Len(messages)

C29_PublishTerminates ==
  /\ [](C29_OneEntryOneVariant /\ C29_VariantNotPublished /\ C29_Chain)
  /\ []<>(tasks = <<>>)

(***************************************************************************)
(* C30: the Projector's handler run once more, to its end, on a confirmed  *)
(* "incoming-message" that already has its row.                            *)
(***************************************************************************)
\* the 'incoming-message-KAFKED' handler with both database calls answered
reprocess(st, f) ==
  LET fetched == projectFetched(st, f, st.facts[f].logId)
      call    == fetched.tasks[Len(fetched.tasks)]
  IN  IF Len(fetched.tasks) = Len(st.tasks) THEN st
      ELSE projectStored([fetched EXCEPT !.tasks = st.tasks],
                         call.chatId, call.userId, call.text, call.logId)

RowsOfLogId(st, logId) == {r \in 1..Len(st.messages) : st.rowLogId[r] = logId}

\* as claimed: the read model holds one row of the sequence id after the
\* second processing
C30_ReprocessingKeepsOneRow ==
  \A f \in Accepted :
    OneRow(f) => Cardinality(RowsOfLogId(reprocess(State, f), facts[f].logId)) = 1

\* as the Projector does: the second processing inserts a second row with the
\* same room, author and text under the next row id
C30_ReprocessingAddsARow ==
  \A f \in Accepted :
    OneRow(f) =>
      LET after == reprocess(State, f)
          last  == after.messages[Len(after.messages)]
      IN  /\ Cardinality(RowsOfLogId(after, facts[f].logId)) = 2
          /\ Len(after.messages) = Len(messages) + 1
          /\ SubSeq(after.messages, 1, Len(messages)) = messages
          /\ last.id_message = autoincrement(messages, "id_message")
          /\ last.id_chat = facts[f].payload.chatId
          /\ last.id_user = facts[f].payload.userId
          /\ last.message = facts[f].payload.messageText

\* a confirmed message has been projected once
C30_Witness ==
  \E f \in Accepted : OneRow(f) /\ Len(facts[f].kafked) = 1 /\ tasks = <<>>

(***************************************************************************)
(* C21: the requests of one connection take effect in the order in which   *)
(* they arrived.  While a select of room R that will be authorized is the  *)
(* connection's latest request, a message received from the connection is  *)
(* published for R; and of two selects of one connection that both wait    *)
(* for their authorization, the one that arrived later gives the active    *)
(* room once both are answered, whichever answer comes first.              *)
(***************************************************************************)
\* the pending selects of a connection; the queue keeps the order of arrival
SelectsOf(ws) == {i \in PendingSelects(tasks) : tasks[i].socket = ws}

Latest(calls) == CHOOSE i \in calls : \A j \in calls : j <= i

\* the state after the authorization lookup of pending select i was answered
Authorized(st, i) ==
  selectAuthorize(st, tasks[i].socket, tasks[i].chatId, tasks[i].lastMessageId)

C21_MessageAfterSelect ==
  \A ws \in Sockets :
    (/\ readyState[ws] = "open"
     /\ SelectsOf(ws) # {}
     /\ Participant(userId[ws], tasks[Latest(SelectsOf(ws))].chatId))
      => LET after == newMessage(State, ws, "hi")
         IN  /\ Len(after.facts) = Len(facts) + 1
             /\ after.facts[Len(after.facts)].type = "incoming-message"
             /\ after.facts[Len(after.facts)].payload.chatId =
                  tasks[Latest(SelectsOf(ws))].chatId

C21_LaterSelectWins ==
  \A ws \in Sockets : \A i, j \in SelectsOf(ws) :
    (/\ i < j
     /\ Participant(userId[ws], tasks[i].chatId)
     /\ Participant(userId[ws], tasks[j].chatId))
      => /\ Authorized(Authorized(State, i), j).chatId[ws] = tasks[j].chatId
         /\ Authorized(Authorized(State, j), i).chatId[ws] = tasks[j].chatId

C21_ArrivalOrder == C21_MessageAfterSelect /\ C21_LaterSelectWins

(***************************************************************************)
(* C22: in every reachable state, a malformed frame received from an open  *)
(* connection publishes no fact and leaves the identity and the active     *)
(* room of the connection, the identity index and the membership map as    *)
(* they are, and the connection stays open.                                *)
(***************************************************************************)
C22_MalformedFrameChangesNothing ==
  \A ws \in {"wsA"} : \A data \in MalformedFrames :
    readyState[ws] = "open" =>
      LET after == onMessage(State, ws, data)
      IN  /\ after.facts = facts
          /\ after.userId = userId
          /\ after.chatId = chatId
          /\ after.clients = clients
          /\ after.chatRooms = chatRooms
          /\ after.readyState = readyState

(***************************************************************************)
(* C23: a connection that closes leaves every pending database call, the   *)
(* log and the read model as they are; an "incoming-message" is at every   *)
(* moment either still worked on by a pending call, or has its row, or a   *)
(* database call of its pipeline was rejected; and in the step that stores *)
(* the row of a message whose author's connection closed after publishing  *)
(* it, every open member of the room is pushed the broadcast and the       *)
(* closed connection nothing.                                              *)
(***************************************************************************)
C23_CloseKeepsPipeline ==
  \A s \in Sockets :
    (readyState[s] = "open" /\ readyState'[s] = "closed") =>
      /\ Len(tasks') >= Len(tasks)
      /\ SubSeq(tasks', 1, Len(tasks)) = tasks
      /\ eventLog' = eventLog
      /\ messages' = messages
      /\ \A f \in FactIds : facts'[f] = facts[f]

WorkedOn(f) ==
  \E i \in 1..Len(tasks) :
    /\ tasks[i].fact = f
    /\ tasks[i].op \in {"logEvent", "getEventByLogId", "addMessage"}

C23_NoMessageAbandoned ==
  \A f \in Accepted :
    \/ WorkedOn(f)
    \/ OneRow(f)
    \/ InTrace(f, "lost")
    \/ InTrace(f, "getEventByLogId rejected")
    \/ InTrace(f, "addMessage rejected")

\* connection c closed after fact f of its user and room was published
ClosedAfter(c, f) ==
  /\ readyState[c] = "closed"
  /\ \E g \in FactIds :
       /\ g > f
       /\ facts[g].type = "connection-closed"
       /\ facts[g].payload.socket = c
       /\ facts[g].payload.userId = facts[f].payload.userId
       /\ facts[g].payload.chatId = facts[f].payload.chatId

C23_RowStoredAfterClose ==
  \A f \in Accepted : \A c \in Sockets :
    (/\ ClosedAfter(c, f)
     /\ Len(messages') = Len(messages) + 1
     /\ rowLogId'[Len(messages')] = facts[f].logId)
      => LET row == messages'[Len(messages')]
         IN  /\ row.id_chat = facts[f].payload.chatId
             /\ row.id_user = facts[f].payload.userId
             /\ row.message = facts[f].payload.messageText
             /\ sent'[c] = sent[c]
             /\ \A s \in Members(row.id_chat) :
                  readyState[s] = "open" =>
                    sent'[s] = Append(sent[s], Push("chat.message.broadcast", <<row>>))

C23_CloseDoesNotCancel ==
  /\ [](C23_NoMessageAbandoned)
  /\ [][C23_CloseKeepsPipeline /\ C23_RowStoredAfterClose]_vars

(***************************************************************************)
(* C31: a connection that was revoked from room R and has not selected a   *)
(* room since has no active room and is no member of R: a message received *)
(* from it changes nothing, and no step pushes it a broadcast of a row of  *)
(* R.                                                                      *)
(***************************************************************************)
\* s was revoked from R, and no select of s was received or authorized since
RevokedFrom(s, R) ==
  /\ SelectsOf(s) = {}
  /\ \E g \in FactIds :
       /\ facts[g].type = "chat-revoked-by-new-tab"
       /\ facts[g].payload.socket = s
       /\ facts[g].payload.chatId = R
       /\ \A h \in FactIds :
            (facts[h].type = "chat-selected-by-user" /\ facts[h].payload.socket = s)
              => h < g

C31_Revoked ==
  \A s \in Sockets : \A R \in 1..3 :
    RevokedFrom(s, R) =>
      /\ chatId[s] = Null
      /\ s \notin Members(R)
      /\ \A text \in Texts : newMessage(State, s, text) = State

C31_NoBroadcastStep ==
  \A s \in Sockets : \A R \in 1..3 :
    RevokedFrom(s, R) =>
      /\ Len(sent'[s]) >= Len(sent[s])
      /\ \A i \in (Len(sent[s]) + 1)..Len(sent'[s]) :
           ~(/\ sent'[s][i].type = "chat.message.broadcast"
             /\ sent'[s][i].rows[1].id_chat = R)

C32_Dispatch ==
  \A R \in 1..3 :
    dispatch(State, R, [ProbeMessage EXCEPT !.chatId = R]).chatRooms = chatRooms

C32_StoreStep == Len(messages') > Len(messages) => chatRooms' = chatRooms

C32_DispatchKeepsMembers == [](C32_Dispatch) /\ [][C32_StoreStep]_vars

\* room 1 has a member whose transport is closed, and a row of the room was
\* broadcast to its open member
C32_Witness ==
  \E s, t \in Sockets :
    /\ readyState[s] = "closed" /\ s \in Members(1)
    /\ readyState[t] = "open" /\ t \in Members(1)
    /\ \E i \in 1..Len(sent[t]) :
         /\ sent[t][i].type = "chat.message.broadcast"
         /\ sent[t][i].rows[1].id_chat = 1

(***************************************************************************)
(* C33: every "message-projected" fact is followed at once by exactly one  *)
(* "message-dispatched" fact carrying the same row, and no other           *)
(* "message-dispatched" fact exists; in the step that publishes the two    *)
(* facts the row is pushed to the open members of its room, whether the    *)
(* room has members or not.                                                *)
(***************************************************************************)
C33_OneDispatched ==
  /\ \A f \in FactsOfType("message-projected") :
       /\ f < Len(facts)
       /\ facts[f + 1].type = "message-dispatched"
       /\ facts[f + 1].payload = facts[f].payload
  /\ \A g \in FactsOfType("message-dispatched") :
       g > 1 /\ facts[g - 1].type = "message-projected"

C33_ProjectedStep ==
  \A f \in (Len(facts) + 1)..Len(facts') :
    facts'[f].type = "message-projected" =>
      LET row == messageRow(facts'[f].payload)
      IN  \A s \in Sockets :
            sent'[s] = IF s \in Members(row.id_chat) /\ readyState[s] = "open"
                         THEN Append(sent[s], Push("chat.message.broadcast", <<row>>))
                         ELSE sent[s]

C33_DispatchedAfterProjected == [](C33_OneDispatched) /\ [][C33_ProjectedStep]_vars

(***************************************************************************)
(* C34: the author of every published "incoming-message" fact is one of    *)
(* the two participants of the fact's room.                                *)
(***************************************************************************)
C34_AuthorIsParticipant ==
  \A f \in Accepted : Participant(facts[f].payload.userId, facts[f].payload.chatId)

(***************************************************************************)
(* C35: a fact that has a log entry was published in reaction only to      *)
(* facts that have a log entry with a smaller sequence id: the cause of a  *)
(* "message-dispatched" is its "message-projected", the cause of a         *)
(* "user-in-room" its "chat-selected-by-user", and the cause of a          *)
(* "message-projected" the "incoming-message" its row was projected from.  *)
(***************************************************************************)
CausesOf(g) ==
  {f \in FactIds :
     \/ facts[g].causationId = f
     \/ /\ facts[g].type = "message-projected"
        /\ facts[f].type = "incoming-message"
        /\ facts[f].logId # Null
        /\ facts[f].logId = rowLogId[facts[g].payload.id_message]}

C35_LogOrderRespectsCausation ==
  \A g \in FactIds :
    facts[g].logId # Null =>
      \A f \in CausesOf(g) : facts[f].logId # Null /\ facts[f].logId < facts[g].logId

(***************************************************************************)
(* C36: of two rows of one room, the row with the smaller message id was   *)
(* projected from the "incoming-message" with the smaller sequence id.     *)
(***************************************************************************)
C36_RowsInLogOrder ==
  \A r1, r2 \in 1..Len(messages) :
    (/\ messages[r1].id_chat = messages[r2].id_chat
     /\ messages[r1].id_message < messages[r2].id_message)
      => rowLogId[r1] < rowLogId[r2]

(***************************************************************************)
(* C37: a connection whose latest select of room R with lastMessageId N    *)
(* was answered its history, and that is open and a member of R with R as  *)
(* its active room, has been pushed every row of R with an id greater than *)
(* N, in a chat.history or in a chat.message.broadcast.                    *)
(***************************************************************************)
\* connection s was pushed the row with this id
Received(s, type, id) ==
  \E i \in 1..Len(sent[s]) :
    /\ sent[s][i].type = type
    /\ \E k \in 1..Len(sent[s][i].rows) : sent[s][i].rows[k].id_message = id

\* fact h is the latest select of its connection, its history query was
\* answered, and the connection is still open and in the room
Settled(h) ==
  LET s == facts[h].payload.socket
  IN  /\ facts[h].type = "chat-selected-by-user"
      /\ Len(facts[h].reply) = 1
      /\ ~InTrace(h, "getChatHistory rejected")
      /\ readyState[s] = "open"
      /\ chatId[s] = facts[h].payload.chatId
      /\ s \in Members(facts[h].payload.chatId)
      /\ SelectsOf(s) = {}
      /\ \A g \in FactIds :
           (/\ g > h
            /\ facts[g].type \in {"chat-selected-by-user", "chat-revoked-by-new-tab",
                                  "connection-closed"})
             => facts[g].payload.socket # s

C37_NoRowLost ==
  \A h \in FactIds :
    Settled(h) =>
      \A r \in 1..Len(messages) :
        (/\ messages[r].id_chat = facts[h].payload.chatId
         /\ messages[r].id_message > facts[h].payload.lastMessageId)
          => \/ Received(facts[h].payload.socket, "chat.history", messages[r].id_message)
             \/ Received(facts[h].payload.socket, "chat.message.broadcast",
                          messages[r].id_message)

(***************************************************************************)
(* C38: no row of the history answered to a select was pushed to the       *)
(* connection as a chat.message.broadcast after the select subscribed it.  *)
(***************************************************************************)
BroadcastSince(s, from, id) ==
  \E i \in (from + 1)..Len(sent[s]) :
    /\ sent[s][i].type = "chat.message.broadcast"
    /\ sent[s][i].rows[1].id_message = id

TimesListed(u, s) ==
  IF Has(clients, u) THEN Cardinality({i \in 1..Len(clients[u]) : clients[u][i] = s}) ELSE 0

C39_IndexIsExact ==
  \A s \in Sockets : \A u \in Users :
    TimesListed(u, s) =
      IF readyState[s] = "open" /\ userId[s] = u THEN 1 ELSE 0

(***************************************************************************)
(* C40: an open connection whose activeRoom is R is a member of R's set;   *)
(* the step that sets the activeRoom subscribes the connection and the     *)
(* step that clears it unsubscribes the connection.                        *)
(***************************************************************************)
C40_ActiveRoomIsMember ==
  \A s \in Sockets :
    (readyState[s] = "open" /\ chatId[s] # Null) => s \in Members(chatId[s])

C40_SameStep ==
  \A s \in Sockets :
    (readyState[s] = "open" /\ readyState'[s] = "open" /\ chatId'[s] # chatId[s]) =>
      IF chatId'[s] # Null
        THEN Has(chatRooms', chatId'[s]) /\ s \in chatRooms'[chatId'[s]]
        ELSE ~(Has(chatRooms', chatId[s]) /\ s \in chatRooms'[chatId[s]])

C40_ActiveRoomMembership == [](C40_ActiveRoomIsMember) /\ [][C40_SameStep]_vars

\* a takeover happened: one open connection has no activeRoom and is in no
\* room, the other has selected room 1 and is in its set
C40_Witness ==
  \E s, t \in Sockets :
    /\ readyState[s] = "open" /\ readyState[t] = "open"
    /\ RevokedFrom(s, 1) /\ chatId[s] = Null /\ s \notin Members(1)
    /\ chatId[t] = 1 /\ t \in Members(1)

=============================================================================
